---- MODULE Spec2Model ----
(***************************************************************************)
(* Model of the EROS schedule builder (schedule_builder.py), the lock      *)
(* store it commits caption reservations to, and the parallel batch driver *)
(* (batch_processor.py) that runs one build per creator on a bounded pool  *)
(* of worker threads.                                                      *)
(*                                                                         *)
(* Times are seconds counted from 00:00 of the week-start date, so a       *)
(* message's calendar day is time \div DAY and its hour is                 *)
(* (time % DAY) \div HOUR.                                                 *)
(***************************************************************************)
EXTENDS Integers, Sequences, FiniteSets, TLC

VARIABLES
    creators,                   \* creator_list handed to the batch driver
    max_workers,                \* BatchProcessor.max_workers
    pc,                         \* position of each submitted task
    attempt,                    \* loop variable of _safe_process, per task
    invocations,                \* calls of processing_function, per task
    analysis,                   \* analysis report held by the running build
    captions,                   \* captions returned by select_captions
    schedule_messages,          \* messages built by _build_time_slots
    schedule_id,                \* id generated in step 5 of build_schedule
    df,                         \* export rows built in step 8 of build_schedule
    stages_run,                 \* stages the current build has entered
    last_error,                 \* exception raised by the current attempt
    wake_at,                    \* second at which a sleeping task may resume
    lock_result,                \* outcome of the current build's lock commit
    now,                        \* wall clock, in seconds
    active_caption_assignments, \* lock store rows
    schedule_recommendations,   \* persisted schedules
    schedule_export_log,        \* export log rows
    successful,                 \* results['successful']
    failed,                     \* results['failed']
    results,                    \* results['results'], keyed by creator
    batch_returned,             \* process_specific_creators has returned
    thread_status,              \* race test: status of each attempt_lock thread
    num_threads,                \* race test: number of concurrent threads
    race_results,               \* race test: results in completion order
    fn_args,                    \* arguments of a function called on its own
    fn_result                   \* what that call returned

vars == <<creators, max_workers, pc, attempt, invocations, analysis, captions,
          schedule_messages, schedule_id, df, stages_run, last_error, wake_at,
          lock_result,
          now, active_caption_assignments, schedule_recommendations,
          schedule_export_log, successful, failed, results, batch_returned,
          thread_status, num_threads, race_results, fn_args, fn_result>>

-----------------------------------------------------------------------------
(* Bounds of the model *)

\* longest creator list submitted to the batch driver
MaxCreators == 2
\* largest worker pool
MaxWorkers == 2
\* latest second the wall clock reaches
MaxNow == 2
\* most threads launched by the lock race test
MaxThreads == 4

\* most PPV captions and most Bump captions handed to _build_time_slots
MaxPPVCaptions == 3
MaxBumpCaptions == 3

-----------------------------------------------------------------------------
(* Program constants *)

HOUR == 60 * 60
DAY == 24 * HOUR
DAYS_PER_WEEK == 7
max_retries == 2
retry_delay == 1

ACCOUNT_SIZE_CONFIGS ==
    [MICRO  |-> [weekly_ppv_min |-> 5,  weekly_ppv_max |-> 7,
                 weekly_bump_min |-> 3,  weekly_bump_max |-> 5,
                 min_gap_seconds |-> 10800, max_messages_per_day |-> 8],
     SMALL  |-> [weekly_ppv_min |-> 7,  weekly_ppv_max |-> 10,
                 weekly_bump_min |-> 5,  weekly_bump_max |-> 7,
                 min_gap_seconds |-> 9000,  max_messages_per_day |-> 10],
     MEDIUM |-> [weekly_ppv_min |-> 10, weekly_ppv_max |-> 14,
                 weekly_bump_min |-> 7,  weekly_bump_max |-> 10,
                 min_gap_seconds |-> 7200,  max_messages_per_day |-> 15],
     LARGE  |-> [weekly_ppv_min |-> 14, weekly_ppv_max |-> 18,
                 weekly_bump_min |-> 10, weekly_bump_max |-> 14,
                 min_gap_seconds |-> 5400,  max_messages_per_day |-> 20],
     MEGA   |-> [weekly_ppv_min |-> 18, weekly_ppv_max |-> 25,
                 weekly_bump_min |-> 14, weekly_bump_max |-> 18,
                 min_gap_seconds |-> 4500,  max_messages_per_day |-> 25]]

\* multipliers are held in hundredths, the gap extension in seconds
SATURATION_RESPONSES ==
    [GREEN  |-> [volume_multiplier |-> 100, bump_increase_ratio |-> 100,
                 gap_extension_seconds |-> 0,    cooling_days_required |-> 0],
     YELLOW |-> [volume_multiplier |-> 75,  bump_increase_ratio |-> 120,
                 gap_extension_seconds |-> 1800, cooling_days_required |-> 0],
     RED    |-> [volume_multiplier |-> 50,  bump_increase_ratio |-> 200,
                 gap_extension_seconds |-> 3600, cooling_days_required |-> 2]]

SizeParams(account_size) ==
    IF account_size \in DOMAIN ACCOUNT_SIZE_CONFIGS
    THEN ACCOUNT_SIZE_CONFIGS[account_size]
    ELSE ACCOUNT_SIZE_CONFIGS["MEDIUM"]

-----------------------------------------------------------------------------
(* Sequence helpers *)

Min(a, b) == IF a < b THEN a ELSE b

Range(s) == {s[i] : i \in DOMAIN s}

\* An insertion that puts message m before the messages of its own time.
RECURSIVE InsertByTimeBeforeEqual(_, _)
InsertByTimeBeforeEqual(s, m) ==
    IF s = <<>> THEN <<m>>
    ELSE IF Head(s).scheduled_send_time < m.scheduled_send_time
         THEN <<Head(s)>> \o InsertByTimeBeforeEqual(Tail(s), m)
         ELSE <<m>> \o s

\* insert message m after every message of the sorted list s whose time is
\* not later than m's
RECURSIVE InsertByTime(_, _)
InsertByTime(s, m) ==
    IF s = <<>> THEN <<m>>
    ELSE IF Head(s).scheduled_send_time <= m.scheduled_send_time
         THEN <<Head(s)>> \o InsertByTime(Tail(s), m)
         ELSE <<m>> \o s

\* sorted(messages, key=lambda x: x['scheduled_send_time']): a stable sort
RECURSIVE SortedByTime(_)
SortedByTime(s) ==
    IF s = <<>> THEN <<>>
    ELSE InsertByTime(SortedByTime(SubSeq(s, 1, Len(s) - 1)), s[Len(s)])

-----------------------------------------------------------------------------
(* Volume targets and tier distribution *)

\* A zone test whose two boundaries belong to the lower zone.
SaturationZoneInclusive(saturation_score, saturation_tolerance) ==
    IF 10 * saturation_score <= 6 * saturation_tolerance THEN "GREEN"
    ELSE IF saturation_score <= saturation_tolerance THEN "YELLOW"
    ELSE "RED"

\* Saturation zone; scores and tolerances are held in thousandths, so that
\* score < tolerance * 0.6 reads 10 * score < 6 * tolerance.
SaturationZone(saturation_score, saturation_tolerance) ==
    IF 10 * saturation_score < 6 * saturation_tolerance THEN "GREEN"
    ELSE IF saturation_score < saturation_tolerance THEN "YELLOW"
    ELSE "RED"

\* Volume targets that apply the multiplier to the sum of min and max and
\* halve afterwards.
calculate_volume_targets_late_halving(account_size, saturation_score, saturation_tolerance) ==
    LET size_params == SizeParams(account_size)
        zone == IF 10 * saturation_score < 6 * saturation_tolerance
                THEN "GREEN"
                ELSE IF saturation_score < saturation_tolerance THEN "YELLOW"
                ELSE "RED"
        response == SATURATION_RESPONSES[zone]
    IN  [ppv_count  |->
             (((size_params.weekly_ppv_min + size_params.weekly_ppv_max)
                   * response.volume_multiplier) \div 100) \div 2,
         bump_count |->
             (((size_params.weekly_bump_min + size_params.weekly_bump_max)
                   * response.bump_increase_ratio) \div 100) \div 2,
         zone       |-> zone]

\* calculate_volume_targets: (adjusted_ppv, adjusted_bump, zone)
calculate_volume_targets(account_size, saturation_score, saturation_tolerance) ==
    LET size_params == SizeParams(account_size)
        zone == SaturationZone(saturation_score, saturation_tolerance)
        response == SATURATION_RESPONSES[zone]
        base_ppv ==
            (size_params.weekly_ppv_min + size_params.weekly_ppv_max) \div 2
        base_bump ==
            (size_params.weekly_bump_min + size_params.weekly_bump_max) \div 2
    IN  [ppv_count  |-> (base_ppv * response.volume_multiplier) \div 100,
         bump_count |-> (base_bump * response.bump_increase_ratio) \div 100,
         zone       |-> zone]

\* A tier distribution that gives the premium tier what the other two
\* shares leave, so that the shares always sum to total_ppv.
_get_tier_distribution_remainder(segment, total_ppv) ==
    LET ratios == IF segment \in {"BUDGET", "EXPLORATORY"} THEN <<60, 30>>
                  ELSE IF segment \in {"PREMIUM", "LUXURY"} THEN <<15, 35>>
                  ELSE <<30, 45>>
        budget == (total_ppv * ratios[1]) \div 100
        mid == (total_ppv * ratios[2]) \div 100
    IN  [budget |-> budget, mid |-> mid, premium |-> total_ppv - budget - mid]

\* _get_tier_distribution: each share is int(total_ppv * ratio)
_get_tier_distribution(segment, total_ppv) ==
    IF segment \in {"BUDGET", "EXPLORATORY"}
    THEN [budget  |-> (total_ppv * 60) \div 100,
          mid     |-> (total_ppv * 30) \div 100,
          premium |-> (total_ppv * 10) \div 100]
    ELSE IF segment \in {"PREMIUM", "LUXURY"}
    THEN [budget  |-> (total_ppv * 15) \div 100,
          mid     |-> (total_ppv * 35) \div 100,
          premium |-> (total_ppv * 50) \div 100]
    ELSE [budget  |-> (total_ppv * 30) \div 100,
          mid     |-> (total_ppv * 45) \div 100,
          premium |-> (total_ppv * 25) \div 100]

-----------------------------------------------------------------------------
(* Time slots *)

\* datetime.combine(current_date, time(hour, minute))
At(day, hour, minute) == day * DAY + hour * HOUR + minute * 60

\* send_time.hour
HourOf(t) == (t % DAY) \div HOUR

\* send_time.date(), as a day offset from the week start
DateOf(t) == t \div DAY

\* list(set(hours)) in CPython for a list of distinct hours of the day: an
\* int hashes to itself, fewer than five elements sit in a table of eight
\* slots and come out in the order of hour mod 8 (the lists used here have
\* no two hours in one slot), five to eight elements sit in a table of 32
\* slots and come out ascending.
ListOfSet(hours) ==
    LET key(h) == IF Len(hours) >= 5 THEN h ELSE h % 8
    IN  [i \in DOMAIN hours |->
            CHOOSE h \in Range(hours) :
                Cardinality({g \in Range(hours) : key(g) < key(h)}) = i - 1]

\* _extract_peak_hours; a time window is [day_type, hour_24]. Without
\* windows the weekday hours come out as 9, 13, 17, 19, 20 and the weekend
\* hours as 18, 11, 21, 14.
_extract_peak_hours(time_windows) ==
    LET hours_of(kind) ==
            LET w == SelectSeq(time_windows,
                               LAMBDA x : (x.day_type = "Weekend")
                                              = (kind = "Weekend"))
            IN  [i \in DOMAIN w |-> w[i].hour_24]
        weekday_hours == IF hours_of("Weekday") = <<>>
                         THEN <<9, 13, 17, 19, 20>>
                         ELSE hours_of("Weekday")
        weekend_hours == IF hours_of("Weekend") = <<>>
                         THEN <<11, 14, 18, 21>>
                         ELSE hours_of("Weekend")
    IN  [Weekday |-> SubSeq(ListOfSet(weekday_hours), 1,
                            Min(8, Len(weekday_hours))),
         Weekend |-> SubSeq(ListOfSet(weekend_hours), 1,
                            Min(8, Len(weekend_hours)))]

IsBumpCaption(c) == c.price_tier \in {"Bump", "Free"}
IsPPVCaption(c) == ~IsBumpCaption(c)

Message(t, kind, caption) ==
    [scheduled_send_time |-> t, message_type |-> kind,
     caption_id |-> caption.caption_id]

\* random.choice(list) with the drawn index r
Choice(list, r) == list[(r % Len(list)) + 1]

\* _build_cooling_day; rnd.pick[day][k] is the draw of the k-th random.choice.
\* The afternoon draw excludes captions equal to messages[0], a message dict,
\* which no caption dict equals.
_build_cooling_day(day, bump_captions, rnd) ==
    LET morning ==
            IF Len(bump_captions) > 0
            THEN <<Message(At(day, 9, 0), "Bump",
                           Choice(bump_captions, rnd.pick[day][0]))>>
            ELSE <<>>
        afternoon ==
            IF Len(bump_captions) > 1
            THEN <<Message(At(day, 14, 30), "Bump",
                           Choice(bump_captions, rnd.pick[day][1]))>>
            ELSE <<>>
        used == {m.caption_id : m \in Range(morning \o afternoon)}
        remaining ==
            SelectSeq(bump_captions, LAMBDA c : c.caption_id \notin used)
        evening ==
            IF Len(bump_captions) > 2 /\ Len(remaining) > 0
            THEN <<Message(At(day, 20, 0), "Bump",
                           Choice(remaining, rnd.pick[day][2]))>>
            ELSE <<>>
    IN  morning \o afternoon \o evening

\* The PPV loop of _build_daily_schedule from slot i on; st holds the messages
\* placed so far and the caption ids already used that day.
RECURSIVE PPVLoop(_, _, _, _, _, _, _, _)
PPVLoop(i, n, st, day, ppv_captions, hours, min_gap, rnd) ==
    LET available ==
            SelectSeq(ppv_captions, LAMBDA c : c.caption_id \notin st.used)
    IN  IF i >= n \/ Len(available) = 0 THEN st
        ELSE
          LET caption == available[(i % Len(available)) + 1]
              hour == hours[(i % Len(hours)) + 1]
              candidate == At(day, hour, rnd.minute[day][i])
              last_time ==
                  st.messages[Len(st.messages)].scheduled_send_time
              gapped ==
                  IF Len(st.messages) > 0 /\ candidate - last_time < min_gap
                  THEN last_time + min_gap
                  ELSE candidate
              send_time ==
                  IF HourOf(gapped) >= 22 THEN At(day, 21, 30) ELSE gapped
          IN  PPVLoop(i + 1, n,
                      [messages |-> Append(st.messages,
                                           Message(send_time, "PPV", caption)),
                       used |-> st.used \cup {caption.caption_id}],
                      day, ppv_captions, hours, min_gap, rnd)

\* The Bump loop of _build_daily_schedule from slot i on.
RECURSIVE BumpLoop(_, _, _, _, _, _)
BumpLoop(i, n, st, day, bump_captions, daily_bump) ==
    LET available ==
            SelectSeq(bump_captions, LAMBDA c : c.caption_id \notin st.used)
    IN  IF i >= n \/ Len(available) = 0 THEN st
        ELSE
          LET caption == available[(i % Len(available)) + 1]
              mid_idx == Len(st.messages) \div 2
              prev_time == st.messages[mid_idx].scheduled_send_time
              next_time == st.messages[mid_idx + 1].scheduled_send_time
              send_time ==
                  IF i = 0 THEN At(day, 8, 30)
                  ELSE IF i = daily_bump - 1 THEN At(day, 21, 0)
                  ELSE IF Len(st.messages) > 1
                       THEN prev_time + (next_time - prev_time) \div 2
                       ELSE At(day, 12 + i, 0)
          IN  BumpLoop(i + 1, n,
                       [messages |-> Append(st.messages,
                                            Message(send_time, "Bump", caption)),
                        used |-> st.used \cup {caption.caption_id}],
                       day, bump_captions, daily_bump)

\* _build_daily_schedule; day_of_week is current_date.weekday()
_build_daily_schedule(day, day_of_week, ppv_captions, bump_captions, daily_ppv, daily_bump, peak_hours, min_gap, rnd) ==
    LET hours == IF day_of_week \in {5, 6} THEN peak_hours.Weekend
                 ELSE peak_hours.Weekday
        ppvs == PPVLoop(0, Min(daily_ppv, Len(ppv_captions)),
                        [messages |-> <<>>, used |-> {}],
                        day, ppv_captions, hours, min_gap, rnd)
        all == BumpLoop(0, Min(daily_bump, Len(bump_captions)),
                        [messages |-> ppvs.messages, used |-> {}],
                        day, bump_captions, daily_bump)
    IN  all.messages

\* A day loop body that builds every day as a normal day.
DailyMessagesNoCooling(day_offset, start_weekday, ppv_captions, bump_captions, ppv_count, bump_count, params, rnd) ==
    _build_daily_schedule(
        day_offset, (start_weekday + day_offset) % DAYS_PER_WEEK,
        ppv_captions, bump_captions,
        ppv_count \div (DAYS_PER_WEEK - params.cooling_days),
        bump_count \div DAYS_PER_WEEK,
        params.peak_hours, params.min_gap, rnd)

\* The body of the day loop of _build_time_slots: the messages of one day,
\* in the order in which they are appended.
DailyMessages(day_offset, start_weekday, ppv_captions, bump_captions, ppv_count, bump_count, params, rnd) ==
    IF day_offset < params.cooling_days
    THEN _build_cooling_day(day_offset, bump_captions, rnd)
    ELSE _build_daily_schedule(
             day_offset, (start_weekday + day_offset) % DAYS_PER_WEEK,
             ppv_captions, bump_captions,
             ppv_count \div (DAYS_PER_WEEK - params.cooling_days),
             bump_count \div DAYS_PER_WEEK,
             params.peak_hours, params.min_gap, rnd)

\* The day loop of _build_time_slots from day_offset on.
RECURSIVE DayLoop(_, _, _, _, _, _, _, _)
DayLoop(day_offset, start_weekday, ppv_captions, bump_captions, ppv_count, bump_count, params, rnd) ==
    IF day_offset >= DAYS_PER_WEEK THEN <<>>
    ELSE DailyMessages(day_offset, start_weekday, ppv_captions,
                       bump_captions, ppv_count, bump_count, params, rnd)
         \o DayLoop(day_offset + 1, start_weekday, ppv_captions,
                    bump_captions, ppv_count, bump_count, params, rnd)

\* size_params, response and peak_hours of _build_time_slots
SlotParams(zone, account_size, time_windows) ==
    [cooling_days |-> SATURATION_RESPONSES[zone].cooling_days_required,
     min_gap |-> SizeParams(account_size).min_gap_seconds
                 + SATURATION_RESPONSES[zone].gap_extension_seconds,
     peak_hours |-> _extract_peak_hours(time_windows)]

\* _build_time_slots
_build_time_slots(caps, start_weekday, ppv_count, bump_count, zone, account_size, time_windows, rnd) ==
    SortedByTime(DayLoop(0, start_weekday, SelectSeq(caps, IsPPVCaption),
                         SelectSeq(caps, IsBumpCaption), ppv_count,
                         bump_count,
                         SlotParams(zone, account_size, time_windows), rnd))

-----------------------------------------------------------------------------
(* Lock store *)

\* An assignments array with an entry for every message, Bumps included.
AssignmentsOfAllMessages(messages) ==
    [i \in DOMAIN messages |->
        [caption_id |-> messages[i].caption_id,
         scheduled_send_date |-> DateOf(messages[i].scheduled_send_time),
         scheduled_send_hour |-> HourOf(messages[i].scheduled_send_time)]]

\* The assignments array of _lock_caption_assignments: one entry per PPV
\* message, in message order.
Assignments(messages) ==
    LET ppv == SelectSeq(messages, LAMBDA m : m.message_type = "PPV")
    IN  [i \in DOMAIN ppv |->
            [caption_id |-> ppv[i].caption_id,
             scheduled_send_date |-> DateOf(ppv[i].scheduled_send_time),
             scheduled_send_hour |-> HourOf(ppv[i].scheduled_send_time)]]

BatchCaptions(assignments) == {a.caption_id : a \in Range(assignments)}

\* caption ids that hold an active row
ActiveCaptions(rows) == {r.caption_id : r \in {x \in rows : x.is_active}}

\* The stored procedure lock_caption_assignments, whose SQL is not part of
\* the sources: a batch that names a caption with an active row is refused
\* whole.
LockConflict(rows, assignments) ==
    BatchCaptions(assignments) \cap ActiveCaptions(rows) # {}

\* Rows of a committed batch: one active row per caption of the batch, taken
\* from the first entry that names it.
NewLockRows(sid, assignments) ==
    {[caption_id |-> assignments[i].caption_id,
      schedule_id |-> sid,
      scheduled_send_date |-> assignments[i].scheduled_send_date,
      scheduled_send_hour |-> assignments[i].scheduled_send_hour,
      is_active |-> TRUE] :
        i \in {j \in DOMAIN assignments :
                 \A k \in 1..(j - 1) :
                    assignments[k].caption_id # assignments[j].caption_id}}

\* A procedure that takes a locked caption over: it deactivates the rows that
\* hold a caption of the batch and inserts its own.
lock_caption_assignments_takeover(rows, sid, assignments) ==
    [status |-> "SUCCESS",
     rows |-> {IF r.caption_id \in BatchCaptions(assignments)
               THEN [r EXCEPT !.is_active = FALSE] ELSE r : r \in rows}
                  \cup NewLockRows(sid, assignments)]

\* The procedure call as one transaction: the conflict signal and no new
\* row, or every row of the batch.
lock_caption_assignments(rows, sid, assignments) ==
    IF LockConflict(rows, assignments)
    THEN [status |-> "CONFLICT", rows |-> rows]
    ELSE [status |-> "SUCCESS", rows |-> rows \cup NewLockRows(sid, assignments)]

\* _build_dataframe: one export row per message, in message order
_build_dataframe(sid, page_name, messages) ==
    [i \in DOMAIN messages |->
        [schedule_id |-> sid,
         page_name |-> page_name,
         scheduled_send_time |-> messages[i].scheduled_send_time,
         message_type |-> messages[i].message_type,
         caption_id |-> messages[i].caption_id]]

-----------------------------------------------------------------------------
(* Inputs of the batch run *)

PageNames == <<"a", "b", "c", "d">>

\* Creator lists up to renaming: the first creator is PageNames[1] and each
\* later one is a creator already listed or the next unused name.
CreatorLists ==
    UNION {
        {[i \in 1..n |-> PageNames[f[i]]] :
            f \in {g \in [1..n -> 1..n] :
                     /\ g[1] = 1
                     /\ \A i \in 2..n : \E j \in 1..(i - 1) : g[i] <= g[j] + 1}} :
        n \in 1..MaxCreators}

\* Reports the analytics procedure may return: a LARGE and a MEDIUM account
\* in the GREEN zone (scores in thousandths).
AnalysisReports ==
    {[size_tier |-> "LARGE", segment_label |-> "STANDARD",
      saturation_score |-> 200, saturation_tolerance |-> 500,
      time_window_optimization |-> <<>>],
     [size_tier |-> "MEDIUM", segment_label |-> "BUDGET",
      saturation_score |-> 200, saturation_tolerance |-> 500,
      time_window_optimization |-> <<>>]}

\* The caption bank in ranking order: two PPV captions and one Bump caption.
CaptionBank ==
    <<[caption_id |-> 1, price_tier |-> "premium"],
      [caption_id |-> 2, price_tier |-> "mid"],
      [caption_id |-> 3, price_tier |-> "Bump"]>>

\* Result sets the selection procedure may return: nothing, or the Bump
\* caption with any of the PPV captions, in ranking order.
SelectResponses ==
    {<<>>} \cup
    {SelectSeq(CaptionBank, LAMBDA c : c.caption_id \in keep \cup {3}) :
        keep \in SUBSET {1, 2}}

\* Draws of the random module during one build: the minute of jitter of
\* each PPV slot and the index drawn by each random.choice.
RandomSources ==
    {[minute |-> [d \in 0..(DAYS_PER_WEEK - 1) |-> [i \in 0..3 |-> m]],
      pick   |-> [d \in 0..(DAYS_PER_WEEK - 1) |-> [k \in 0..2 |-> k0]]] :
        m \in {30}, k0 \in {0}}

\* weekday() of the week-start date: a Monday
StartWeekday == 0

-----------------------------------------------------------------------------
(* Batch driver and build pipeline *)

Tasks == DOMAIN creators

InProgress ==
    {"analyze", "select", "build", "persist", "lock", "dataframe",
     "log_export", "sleep"}

Busy == {t \in Tasks : pc[t] \in InProgress}

stores == <<active_caption_assignments, schedule_recommendations,
            schedule_export_log>>
collected == <<successful, failed, results, batch_returned>>
race == <<thread_status, num_threads, race_results>>
locals == <<analysis, captions, schedule_messages, schedule_id, df>>
calls == <<fn_args, fn_result>>

Init ==
    /\ creators \in CreatorLists
    /\ max_workers \in 1..MaxWorkers
    /\ pc = [t \in DOMAIN creators |-> "pending"]
    /\ attempt = [t \in DOMAIN creators |-> 0]
    /\ invocations = [t \in DOMAIN creators |-> 0]
    /\ analysis = [t \in DOMAIN creators |-> <<>>]
    /\ captions = [t \in DOMAIN creators |-> <<>>]
    /\ schedule_messages = [t \in DOMAIN creators |-> <<>>]
    /\ schedule_id = [t \in DOMAIN creators |-> <<>>]
    /\ df = [t \in DOMAIN creators |-> <<>>]
    /\ stages_run = [t \in DOMAIN creators |-> <<>>]
    /\ last_error = [t \in DOMAIN creators |-> "none"]
    /\ wake_at = [t \in DOMAIN creators |-> 0]
    /\ lock_result = [t \in DOMAIN creators |-> "none"]
    /\ now = 0
    /\ active_caption_assignments = {}
    /\ schedule_recommendations = {}
    /\ schedule_export_log = {}
    /\ successful = <<>>
    /\ failed = <<>>
    /\ results = [c \in Range(creators) |-> "unset"]
    /\ batch_returned = FALSE
    /\ thread_status = <<>>
    /\ num_threads = 0
    /\ race_results = <<>>
    /\ fn_args = <<>>
    /\ fn_result = <<>>

\* A pool whose workers count as free while they sleep between attempts.
StartTaskIdleSleepers(t) ==
    /\ pc[t] = "pending"
    /\ \A u \in Tasks : u < t => pc[u] # "pending"
    /\ Cardinality({u \in Busy : pc[u] # "sleep"}) < max_workers
    /\ pc' = [pc EXCEPT ![t] = "analyze"]
    /\ attempt' = [attempt EXCEPT ![t] = 0]
    /\ invocations' = [invocations EXCEPT ![t] = @ + 1]
    /\ UNCHANGED <<creators, max_workers, locals, stages_run, last_error,
                   wake_at, lock_result, now, stores, collected, race, calls>>

\* A worker thread of the pool takes the oldest queued task and enters
\* _safe_process: attempt 0 calls the processing function.
StartTask(t) ==
    /\ pc[t] = "pending"
    /\ \A u \in Tasks : u < t => pc[u] # "pending"
    /\ Cardinality(Busy) < max_workers
    /\ pc' = [pc EXCEPT ![t] = "analyze"]
    /\ attempt' = [attempt EXCEPT ![t] = 0]
    /\ invocations' = [invocations EXCEPT ![t] = @ + 1]
    /\ UNCHANGED <<creators, max_workers, locals, stages_run, last_error,
                   wake_at, lock_result, now, stores, collected, race, calls>>

\* An except branch that compares the attempt with max_retries itself and so
\* allows one attempt more.
safe_process_except_one_more(t, err) ==
    /\ last_error' = [last_error EXCEPT ![t] = err]
    /\ analysis' = [analysis EXCEPT ![t] = <<>>]
    /\ captions' = [captions EXCEPT ![t] = <<>>]
    /\ schedule_messages' = [schedule_messages EXCEPT ![t] = <<>>]
    /\ schedule_id' = [schedule_id EXCEPT ![t] = <<>>]
    /\ df' = [df EXCEPT ![t] = <<>>]
    /\ IF attempt[t] < max_retries
       THEN /\ pc' = [pc EXCEPT ![t] = "sleep"]
            /\ wake_at' = [wake_at EXCEPT
                             ![t] = now + retry_delay * (attempt[t] + 1)]
       ELSE /\ pc' = [pc EXCEPT ![t] = "raised"]
            /\ UNCHANGED wake_at

\* An except branch that never gives up: it sleeps and retries after every
\* failure.
safe_process_except_forever(t, err) ==
    /\ last_error' = [last_error EXCEPT ![t] = err]
    /\ analysis' = [analysis EXCEPT ![t] = <<>>]
    /\ captions' = [captions EXCEPT ![t] = <<>>]
    /\ schedule_messages' = [schedule_messages EXCEPT ![t] = <<>>]
    /\ schedule_id' = [schedule_id EXCEPT ![t] = <<>>]
    /\ df' = [df EXCEPT ![t] = <<>>]
    /\ pc' = [pc EXCEPT ![t] = "sleep"]
    /\ wake_at' = [wake_at EXCEPT ![t] = now + retry_delay * (attempt[t] + 1)]

\* The except branch of _safe_process for the exception err that left the
\* processing function (whose locals are gone): sleep before the next
\* attempt, or re-raise after the last one.
safe_process_except(t, err) ==
    /\ last_error' = [last_error EXCEPT ![t] = err]
    /\ analysis' = [analysis EXCEPT ![t] = <<>>]
    /\ captions' = [captions EXCEPT ![t] = <<>>]
    /\ schedule_messages' = [schedule_messages EXCEPT ![t] = <<>>]
    /\ schedule_id' = [schedule_id EXCEPT ![t] = <<>>]
    /\ df' = [df EXCEPT ![t] = <<>>]
    /\ IF attempt[t] < max_retries - 1
       THEN /\ pc' = [pc EXCEPT ![t] = "sleep"]
            /\ wake_at' = [wake_at EXCEPT
                             ![t] = now + retry_delay * (attempt[t] + 1)]
       ELSE /\ pc' = [pc EXCEPT ![t] = "raised"]
            /\ UNCHANGED wake_at

\* time.sleep returns, not before the delay has passed, and the loop of
\* _safe_process calls the processing function again, which starts a new
\* build from its first step.
safe_process_retry(t) ==
    /\ pc[t] = "sleep"
    /\ wake_at[t] <= MaxNow
    /\ now' = IF now < wake_at[t] THEN wake_at[t] ELSE now
    /\ pc' = [pc EXCEPT ![t] = "analyze"]
    /\ attempt' = [attempt EXCEPT ![t] = @ + 1]
    /\ invocations' = [invocations EXCEPT ![t] = @ + 1]
    /\ stages_run' = [stages_run EXCEPT ![t] = <<>>]
    /\ lock_result' = [lock_result EXCEPT ![t] = "none"]
    /\ wake_at' = [wake_at EXCEPT ![t] = 0]
    /\ last_error' = [last_error EXCEPT ![t] = "none"]
    /\ UNCHANGED <<creators, max_workers, locals, stores, collected, race, calls>>

\* build_schedule step 1: analyze_creator returns a report or raises.
AnalyzeCreator(t) ==
    /\ pc[t] = "analyze"
    /\ stages_run' = [stages_run EXCEPT ![t] = Append(@, "analyze")]
    /\ \/ /\ \E report \in AnalysisReports :
                analysis' = [analysis EXCEPT ![t] = <<report>>]
          /\ pc' = [pc EXCEPT ![t] = "select"]
          /\ UNCHANGED <<captions, schedule_messages, schedule_id, df,
                         last_error, wake_at>>
       \/ safe_process_except(t, "AnalysisError")
    /\ UNCHANGED <<creators, max_workers, attempt, invocations, lock_result,
                   now, stores, collected, race, calls>>

\* A selection step without the check for an empty result.
SelectCaptionsUnchecked(t) ==
    /\ pc[t] = "select"
    /\ stages_run' = [stages_run EXCEPT ![t] = Append(@, "select")]
    /\ \/ \E response \in SelectResponses :
            /\ captions' = [captions EXCEPT ![t] = response]
            /\ pc' = [pc EXCEPT ![t] = "build"]
            /\ UNCHANGED <<analysis, schedule_messages, schedule_id, df,
                           last_error, wake_at>>
       \/ safe_process_except(t, "SelectionError")
    /\ UNCHANGED <<creators, max_workers, attempt, invocations, lock_result,
                   now, stores, collected, race, calls>>

\* build_schedule steps 2 and 3: volume targets, tier distribution and
\* select_captions, which returns captions or raises; an empty result raises
\* ValueError.
SelectCaptions(t) ==
    /\ pc[t] = "select"
    /\ stages_run' = [stages_run EXCEPT ![t] = Append(@, "select")]
    /\ \/ \E response \in SelectResponses :
            IF response = <<>>
            THEN safe_process_except(t, "ValueError")
            ELSE /\ captions' = [captions EXCEPT ![t] = response]
                 /\ pc' = [pc EXCEPT ![t] = "build"]
                 /\ UNCHANGED <<analysis, schedule_messages, schedule_id, df,
                                last_error, wake_at>>
       \/ safe_process_except(t, "SelectionError")
    /\ UNCHANGED <<creators, max_workers, attempt, invocations, lock_result,
                   now, stores, collected, race, calls>>

\* build_schedule steps 4 and 5: _build_time_slots returns the sorted
\* messages or raises, then the schedule id is formed from the clock and the
\* page name.
BuildTimeSlots(t) ==
    /\ pc[t] = "build"
    /\ stages_run' = [stages_run EXCEPT ![t] = Append(@, "build")]
    /\ \/ /\ \E rnd \in RandomSources :
               LET report == analysis[t][1]
                   targets == calculate_volume_targets(
                                  report.size_tier, report.saturation_score,
                                  report.saturation_tolerance)
               IN  schedule_messages' =
                       [schedule_messages EXCEPT ![t] =
                           _build_time_slots(captions[t], StartWeekday,
                                             targets.ppv_count,
                                             targets.bump_count, targets.zone,
                                             report.size_tier,
                                             report.time_window_optimization,
                                             rnd)]
          /\ schedule_id' = [schedule_id EXCEPT ![t] = <<now, creators[t]>>]
          /\ pc' = [pc EXCEPT ![t] = "persist"]
          /\ UNCHANGED <<analysis, captions, df, last_error, wake_at>>
       \/ safe_process_except(t, "BuildError")
    /\ UNCHANGED <<creators, max_workers, attempt, invocations, lock_result,
                   now, stores, collected, race, calls>>

\* build_schedule step 6: _persist_schedule inserts the schedule row or
\* raises.
PersistSchedule(t) ==
    /\ pc[t] = "persist"
    /\ stages_run' = [stages_run EXCEPT ![t] = Append(@, "persist")]
    /\ \/ /\ schedule_recommendations' =
                schedule_recommendations \cup
                    {[schedule_id |-> schedule_id[t],
                      page_name |-> creators[t]]}
          /\ pc' = [pc EXCEPT ![t] = "lock"]
          /\ UNCHANGED <<locals, last_error, wake_at>>
       \/ /\ safe_process_except(t, "PersistError")
          /\ UNCHANGED schedule_recommendations
    /\ UNCHANGED <<creators, max_workers, attempt, invocations, lock_result,
                   now, active_caption_assignments, schedule_export_log,
                   collected, race, calls>>

\* A lock step that inserts the rows of its batch without asking whether a
\* caption is already locked.
LockCaptionAssignmentsInsertOnly(t) ==
    /\ pc[t] = "lock"
    /\ stages_run' = [stages_run EXCEPT ![t] = Append(@, "lock")]
    /\ LET assignments == Assignments(schedule_messages[t])
       IN  /\ active_caption_assignments' =
                  active_caption_assignments
                      \cup NewLockRows(schedule_id[t], assignments)
           /\ lock_result' =
                  [lock_result EXCEPT
                     ![t] = IF assignments = <<>> THEN "SKIPPED" ELSE "SUCCESS"]
           /\ pc' = [pc EXCEPT ![t] = "dataframe"]
           /\ UNCHANGED <<locals, last_error, wake_at>>
    /\ UNCHANGED <<creators, max_workers, attempt, invocations, now,
                   schedule_recommendations, schedule_export_log, collected,
                   race, calls>>

\* A lock step that commits its batch caption by caption: the free captions
\* are locked before the conflict on a taken one is raised.
LockCaptionAssignmentsRowByRow(t) ==
    /\ pc[t] = "lock"
    /\ stages_run' = [stages_run EXCEPT ![t] = Append(@, "lock")]
    /\ LET assignments == Assignments(schedule_messages[t])
           taken == ActiveCaptions(active_caption_assignments)
           free == {r \in NewLockRows(schedule_id[t], assignments) :
                      r.caption_id \notin taken}
       IN  IF assignments = <<>>
           THEN /\ lock_result' = [lock_result EXCEPT ![t] = "SKIPPED"]
                /\ pc' = [pc EXCEPT ![t] = "dataframe"]
                /\ UNCHANGED <<active_caption_assignments, locals,
                               last_error, wake_at>>
           ELSE /\ active_caption_assignments' =
                       active_caption_assignments \cup free
                /\ IF LockConflict(active_caption_assignments, assignments)
                   THEN /\ lock_result' =
                               [lock_result EXCEPT ![t] = "CONFLICT"]
                        /\ safe_process_except(t, "LockConflict")
                   ELSE /\ lock_result' =
                               [lock_result EXCEPT ![t] = "SUCCESS"]
                        /\ pc' = [pc EXCEPT ![t] = "dataframe"]
                        /\ UNCHANGED <<locals, last_error, wake_at>>
    /\ UNCHANGED <<creators, max_workers, attempt, invocations, now,
                   schedule_recommendations, schedule_export_log, collected,
                   race, calls>>

\* build_schedule step 7: _lock_caption_assignments returns without a call
\* when the schedule has no PPV message, and otherwise calls the procedure
\* and re-raises its error.
LockCaptionAssignments(t) ==
    /\ pc[t] = "lock"
    /\ stages_run' = [stages_run EXCEPT ![t] = Append(@, "lock")]
    /\ LET assignments == Assignments(schedule_messages[t])
           outcome == lock_caption_assignments(active_caption_assignments,
                                               schedule_id[t], assignments)
       IN  IF assignments = <<>>
           THEN /\ lock_result' = [lock_result EXCEPT ![t] = "SKIPPED"]
                /\ pc' = [pc EXCEPT ![t] = "dataframe"]
                /\ UNCHANGED <<active_caption_assignments, locals,
                               last_error, wake_at>>
           ELSE /\ active_caption_assignments' = outcome.rows
                /\ lock_result' = [lock_result EXCEPT ![t] = outcome.status]
                /\ IF outcome.status = "SUCCESS"
                   THEN /\ pc' = [pc EXCEPT ![t] = "dataframe"]
                        /\ UNCHANGED <<locals, last_error, wake_at>>
                   ELSE safe_process_except(t, "LockConflict")
    /\ UNCHANGED <<creators, max_workers, attempt, invocations, now,
                   schedule_recommendations, schedule_export_log, collected,
                   race, calls>>

\* An export step that forms the id of its rows from the clock again.
BuildDataframeFreshId(t) ==
    /\ pc[t] = "dataframe"
    /\ stages_run' = [stages_run EXCEPT ![t] = Append(@, "dataframe")]
    /\ \/ /\ df' = [df EXCEPT ![t] = _build_dataframe(<<now, creators[t]>>,
                                                     creators[t],
                                                     schedule_messages[t])]
          /\ pc' = [pc EXCEPT ![t] = "log_export"]
          /\ UNCHANGED <<analysis, captions, schedule_messages, schedule_id,
                         last_error, wake_at>>
       \/ safe_process_except(t, "DataframeError")
    /\ UNCHANGED <<creators, max_workers, attempt, invocations, lock_result,
                   now, stores, collected, race, calls>>

\* build_schedule step 8: _build_dataframe returns the export rows or raises.
BuildDataframe(t) ==
    /\ pc[t] = "dataframe"
    /\ stages_run' = [stages_run EXCEPT ![t] = Append(@, "dataframe")]
    /\ \/ /\ df' = [df EXCEPT ![t] = _build_dataframe(schedule_id[t],
                                                     creators[t],
                                                     schedule_messages[t])]
          /\ pc' = [pc EXCEPT ![t] = "log_export"]
          /\ UNCHANGED <<analysis, captions, schedule_messages, schedule_id,
                         last_error, wake_at>>
       \/ safe_process_except(t, "DataframeError")
    /\ UNCHANGED <<creators, max_workers, attempt, invocations, lock_result,
                   now, stores, collected, race, calls>>

\* build_schedule returns (schedule_id, df) to _safe_process, which returns
\* it to the pool.
BuildReturns(t) ==
    /\ pc' = [pc EXCEPT ![t] = "returned"]
    /\ analysis' = [analysis EXCEPT ![t] = <<>>]
    /\ captions' = [captions EXCEPT ![t] = <<>>]
    /\ schedule_messages' = [schedule_messages EXCEPT ![t] = <<>>]
    /\ df' = [df EXCEPT ![t] = <<>>]
    /\ UNCHANGED <<schedule_id, last_error, wake_at>>

\* The last step of build_schedule: _log_export writes the log row, or logs
\* a warning and carries on, or raises when the retry after creating the
\* table fails.
LogExport(t) ==
    /\ pc[t] = "log_export"
    /\ stages_run' = [stages_run EXCEPT ![t] = Append(@, "log_export")]
    /\ \/ /\ schedule_export_log' =
                schedule_export_log \cup
                    {[schedule_id |-> schedule_id[t],
                      page_name |-> creators[t],
                      status |-> "SUCCESS"]}
          /\ BuildReturns(t)
       \/ /\ UNCHANGED schedule_export_log
          /\ BuildReturns(t)
       \/ /\ safe_process_except(t, "ExportLogError")
          /\ UNCHANGED schedule_export_log
    /\ UNCHANGED <<creators, max_workers, attempt, invocations, lock_result,
                   now, active_caption_assignments, schedule_recommendations,
                   collected, race, calls>>

\* A collection loop without the try around future.result(): the first
\* exception leaves the loop and ends the batch.
CollectResultReraise(t) ==
    /\ pc[t] \in {"returned", "raised"}
    /\ IF pc[t] = "returned"
       THEN /\ successful' = Append(successful, creators[t])
            /\ results' = [results EXCEPT ![creators[t]] = "result"]
            /\ pc' = [pc EXCEPT ![t] = "recorded_successful"]
            /\ UNCHANGED <<failed, batch_returned>>
       ELSE /\ batch_returned' = TRUE
            /\ pc' = [pc EXCEPT ![t] = "recorded_failed"]
            /\ UNCHANGED <<successful, failed, results>>
    /\ UNCHANGED <<creators, max_workers, attempt, invocations, locals,
                   stages_run, last_error, wake_at, lock_result, now, stores,
                   race, calls>>

\* One round of the as_completed loop: the result of a finished future is
\* appended to successful, or its exception to failed.
CollectResult(t) ==
    /\ pc[t] \in {"returned", "raised"}
    /\ IF pc[t] = "returned"
       THEN /\ successful' = Append(successful, creators[t])
            /\ results' = [results EXCEPT ![creators[t]] = "result"]
            /\ pc' = [pc EXCEPT ![t] = "recorded_successful"]
            /\ UNCHANGED failed
       ELSE /\ failed' = Append(failed, creators[t])
            /\ results' = [results EXCEPT ![creators[t]] = last_error[t]]
            /\ pc' = [pc EXCEPT ![t] = "recorded_failed"]
            /\ UNCHANGED successful
    /\ UNCHANGED <<creators, max_workers, attempt, invocations, locals,
                   stages_run, last_error, wake_at, lock_result, now, stores,
                   batch_returned, race, calls>>

\* The executor has shut down and every future was collected:
\* process_specific_creators returns the results.
BatchReturn ==
    /\ ~batch_returned
    /\ \A t \in Tasks : pc[t] \in {"recorded_successful", "recorded_failed"}
    /\ batch_returned' = TRUE
    /\ UNCHANGED <<creators, max_workers, pc, attempt, invocations, locals,
                   stages_run, last_error, wake_at, lock_result, now, stores,
                   successful, failed, results, race, calls>>

Next ==
    \/ \E t \in Tasks : StartTask(t)
    \/ \E t \in Tasks : safe_process_retry(t)
    \/ \E t \in Tasks : AnalyzeCreator(t)
    \/ \E t \in Tasks : SelectCaptions(t)
    \/ \E t \in Tasks : BuildTimeSlots(t)
    \/ \E t \in Tasks : PersistSchedule(t)
    \/ \E t \in Tasks : LockCaptionAssignments(t)
    \/ \E t \in Tasks : BuildDataframe(t)
    \/ \E t \in Tasks : LogExport(t)
    \/ \E t \in Tasks : CollectResult(t)
    \/ BatchReturn

Spec == Init /\ [][Next]_vars

-----------------------------------------------------------------------------
(* process_all_creators with any processing function *)

\* get_active_creators returns the distinct page names of the active
\* creators; an empty list ends process_all_creators before any submission.
ActiveCreatorLists ==
    {c \in CreatorLists : \A i, j \in DOMAIN c : c[i] = c[j] => i = j}

InitAll ==
    /\ Init
    /\ creators \in ActiveCreatorLists

\* The call of processing_function in _safe_process returns; a task at
\* "analyze" is inside that call.
processing_function_returns(t) ==
    /\ pc[t] = "analyze"
    /\ pc' = [pc EXCEPT ![t] = "returned"]
    /\ UNCHANGED <<creators, max_workers, attempt, invocations, locals,
                   stages_run, last_error, wake_at, lock_result, now, stores,
                   collected, race, calls>>

\* The call of processing_function raises.
processing_function_raises(t) ==
    /\ pc[t] = "analyze"
    /\ safe_process_except(t, "Exception")
    /\ UNCHANGED <<creators, max_workers, attempt, invocations, stages_run,
                   lock_result, now, stores, collected, race, calls>>

NextAll ==
    \/ \E t \in Tasks : StartTask(t)
    \/ \E t \in Tasks : processing_function_returns(t)
    \/ \E t \in Tasks : processing_function_raises(t)
    \/ \E t \in Tasks : safe_process_retry(t)
    \/ \E t \in Tasks : CollectResult(t)
    \/ BatchReturn

\* Every call that is made returns or raises, a sleep ends and the pool
\* keeps running its workers: some enabled step is eventually taken.
SpecAll == InitAll /\ [][NextAll]_vars /\ WF_vars(NextAll)

-----------------------------------------------------------------------------
(* _build_time_slots called on its own *)

\* the state of a run in which no batch and no race test takes place
NoBatchRun ==
    /\ creators = <<>>
    /\ max_workers = 0
    /\ pc = <<>>
    /\ attempt = <<>>
    /\ invocations = <<>>
    /\ analysis = <<>>
    /\ captions = <<>>
    /\ schedule_messages = <<>>
    /\ schedule_id = <<>>
    /\ df = <<>>
    /\ stages_run = <<>>
    /\ last_error = <<>>
    /\ wake_at = <<>>
    /\ lock_result = <<>>
    /\ now = 0
    /\ active_caption_assignments = {}
    /\ schedule_recommendations = {}
    /\ schedule_export_log = {}
    /\ successful = <<>>
    /\ failed = <<>>
    /\ results = <<>>
    /\ batch_returned = FALSE
    /\ thread_status = <<>>
    /\ num_threads = 0
    /\ race_results = <<>>

\* A caption list as select_captions returns it: p PPV captions, then b
\* Bump captions.
CaptionPool(p, b) ==
    [i \in 1..(p + b) |->
        IF i <= p THEN [caption_id |-> i, price_tier |-> "premium"]
        ELSE [caption_id |-> 100 + (i - p), price_tier |-> "Bump"]]

\* time_window_optimization of the analysis report: no window, or windows
\* that name a late hour
TimeWindowChoices ==
    {<<>>,
     <<[day_type |-> "Weekday", hour_24 |-> 21]>>,
     <<[day_type |-> "Weekday", hour_24 |-> 21],
       [day_type |-> "Weekend", hour_24 |-> 21]>>,
     <<[day_type |-> "Weekday", hour_24 |-> 22]>>}

\* Draws of the random module, the same on every day: the minute of the
\* first two PPV slots and the index of the first two random.choice calls
\* vary.
SlotRandomSources ==
    {[minute |-> [d \in 0..(DAYS_PER_WEEK - 1) |->
                    [i \in 0..3 |-> IF i = 0 THEN m0
                                    ELSE IF i = 1 THEN m1 ELSE 10]],
      pick   |-> [d \in 0..(DAYS_PER_WEEK - 1) |->
                    [k \in 0..2 |-> IF k = 0 THEN k0
                                    ELSE IF k = 1 THEN k1 ELSE 0]]] :
        m0 \in {10, 50}, m1 \in {10, 50}, k0 \in {0, 1}, k1 \in {0, 1}}

\* saturation scores, in thousandths, that give the three zones at the
\* tolerance 0.5
ZoneScores == {200, 400, 600}

InitSlots ==
    /\ NoBatchRun
    /\ fn_args \in
           [account_size : DOMAIN ACCOUNT_SIZE_CONFIGS,
            saturation_score : ZoneScores,
            saturation_tolerance : {500},
            captions : {CaptionPool(p, b) : p \in 0..MaxPPVCaptions,
                                           b \in 0..MaxBumpCaptions},
            time_windows : TimeWindowChoices,
            rnd : SlotRandomSources]
    /\ fn_result = <<>>

\* A build that gives every normal day the whole weekly target.
call_build_time_slots_weekly_per_day ==
    /\ fn_result = <<>>
    /\ LET targets == calculate_volume_targets(
                          fn_args.account_size, fn_args.saturation_score,
                          fn_args.saturation_tolerance)
           params == SlotParams(targets.zone, fn_args.account_size,
                                fn_args.time_windows)
           ppv_count == targets.ppv_count
                            * (DAYS_PER_WEEK - params.cooling_days)
           bump_count == targets.bump_count * DAYS_PER_WEEK
       IN  fn_result' =
               [zone |-> targets.zone,
                min_gap |-> params.min_gap,
                daily_ppv |-> targets.ppv_count,
                daily_bump |-> targets.bump_count,
                days |->
                    [d \in 0..(DAYS_PER_WEEK - 1) |->
                        DailyMessages(d, StartWeekday,
                                      SelectSeq(fn_args.captions, IsPPVCaption),
                                      SelectSeq(fn_args.captions, IsBumpCaption),
                                      ppv_count, bump_count,
                                      params, fn_args.rnd)],
                messages |->
                    _build_time_slots(fn_args.captions, StartWeekday,
                                      ppv_count, bump_count,
                                      targets.zone, fn_args.account_size,
                                      fn_args.time_windows, fn_args.rnd)]
    /\ UNCHANGED <<fn_args, creators, max_workers, pc, attempt, invocations,
                   locals, stages_run, last_error, wake_at, lock_result, now,
                   stores, collected, race>>

\* Steps 2 and 4 of build_schedule on the given report and captions: the
\* volume targets, the messages of each day as they are appended, and the
\* sorted list that _build_time_slots returns.
call_build_time_slots ==
    /\ fn_result = <<>>
    /\ LET targets == calculate_volume_targets(
                          fn_args.account_size, fn_args.saturation_score,
                          fn_args.saturation_tolerance)
           params == SlotParams(targets.zone, fn_args.account_size,
                                fn_args.time_windows)
       IN  fn_result' =
               [zone |-> targets.zone,
                min_gap |-> params.min_gap,
                daily_ppv |-> targets.ppv_count
                                  \div (DAYS_PER_WEEK - params.cooling_days),
                daily_bump |-> targets.bump_count \div DAYS_PER_WEEK,
                days |->
                    [d \in 0..(DAYS_PER_WEEK - 1) |->
                        DailyMessages(d, StartWeekday,
                                      SelectSeq(fn_args.captions, IsPPVCaption),
                                      SelectSeq(fn_args.captions, IsBumpCaption),
                                      targets.ppv_count, targets.bump_count,
                                      params, fn_args.rnd)],
                messages |->
                    _build_time_slots(fn_args.captions, StartWeekday,
                                      targets.ppv_count, targets.bump_count,
                                      targets.zone, fn_args.account_size,
                                      fn_args.time_windows, fn_args.rnd)]
    /\ UNCHANGED <<fn_args, creators, max_workers, pc, attempt, invocations,
                   locals, stages_run, last_error, wake_at, lock_result, now,
                   stores, collected, race>>

NextSlots == call_build_time_slots

SpecSlots == InitSlots /\ [][NextSlots]_vars

-----------------------------------------------------------------------------
(* calculate_volume_targets and _get_tier_distribution on their own *)

\* Scores and tolerances are drawn from hundredths (multiples of 10
\* thousandths) and twentieths (multiples of 50 thousandths). On these
\* inputs the integer comparison of SaturationZone gives the zone of the
\* float comparison of the code. Off this grid the product tolerance * 0.6
\* is rounded: at score 0.051 and tolerance 0.085 it is
\* 0.05100000000000001 and the code answers GREEN.
MaxScoreSteps == 100
MaxToleranceSteps == 20

SaturationScores == {10 * k : k \in 0..MaxScoreSteps}
SaturationTolerances == {50 * k : k \in 1..MaxToleranceSteps}

\* the five tiers, and a label with no entry in ACCOUNT_SIZE_CONFIGS
AccountSizes == DOMAIN ACCOUNT_SIZE_CONFIGS \cup {"UNKNOWN"}

InitVolume ==
    /\ NoBatchRun
    /\ fn_args \in [account_size : AccountSizes,
                    saturation_score : SaturationScores,
                    saturation_tolerance : SaturationTolerances]
    /\ fn_result = <<>>

call_calculate_volume_targets ==
    /\ fn_result = <<>>
    /\ fn_result' = calculate_volume_targets(fn_args.account_size,
                                             fn_args.saturation_score,
                                             fn_args.saturation_tolerance)
    /\ UNCHANGED <<fn_args, creators, max_workers, pc, attempt, invocations,
                   locals, stages_run, last_error, wake_at, lock_result, now,
                   stores, collected, race>>

NextVolume == call_calculate_volume_targets

SpecVolume == InitVolume /\ [][NextVolume]_vars

\* Totals stay in the range in which int(total_ppv * ratio) of the code is
\* the exact floor; the float product first falls short at total_ppv = 180,
\* where int(180 * 0.35) is 62.
MaxTotalPPV == 40

\* segment labels of the analysis report; "STANDARD" and any other label
\* take the last branch
Segments == {"BUDGET", "EXPLORATORY", "PREMIUM", "LUXURY", "STANDARD", "OTHER"}

InitTiers ==
    /\ NoBatchRun
    /\ fn_args \in [segment : Segments, total_ppv : 0..MaxTotalPPV]
    /\ fn_result = <<>>

call_get_tier_distribution ==
    /\ fn_result = <<>>
    /\ fn_result' = _get_tier_distribution(fn_args.segment, fn_args.total_ppv)
    /\ UNCHANGED <<fn_args, creators, max_workers, pc, attempt, invocations,
                   locals, stages_run, last_error, wake_at, lock_result, now,
                   stores, collected, race>>

NextTiers == call_get_tier_distribution

SpecTiers == InitTiers /\ [][NextTiers]_vars

-----------------------------------------------------------------------------
(* The lock race test: test_concurrent_locking *)

\* the caption every thread of the test tries to lock (self.test_caption_id)
TestCaption == 99999

Threads == DOMAIN thread_status

\* Rows the lock table may hold when the test starts: none, or one left by
\* an earlier run of the test.
StaleRows ==
    {{},
     {[caption_id |-> TestCaption, schedule_id |-> <<0, "test_schedule_race">>,
       scheduled_send_date |-> 3, scheduled_send_hour |-> 14,
       is_active |-> TRUE]}}

\* the batch of attempt_lock: the test caption alone
TestBatch ==
    <<[caption_id |-> TestCaption, scheduled_send_date |-> 3,
       scheduled_send_hour |-> 14]>>

pipeline == <<creators, max_workers, pc, attempt, invocations, locals,
              stages_run, last_error, wake_at, lock_result, now,
              schedule_recommendations, schedule_export_log, collected>>

InitRace ==
    /\ num_threads \in 2..MaxThreads
    /\ thread_status = [i \in 1..num_threads |-> "new"]
    /\ race_results = <<>>
    /\ active_caption_assignments \in StaleRows
    /\ creators = <<>>
    /\ max_workers = 0
    /\ pc = <<>>
    /\ attempt = <<>>
    /\ invocations = <<>>
    /\ analysis = <<>>
    /\ captions = <<>>
    /\ schedule_messages = <<>>
    /\ schedule_id = <<>>
    /\ df = <<>>
    /\ stages_run = <<>>
    /\ last_error = <<>>
    /\ wake_at = <<>>
    /\ lock_result = <<>>
    /\ now = 0
    /\ schedule_recommendations = {}
    /\ schedule_export_log = {}
    /\ successful = <<>>
    /\ failed = <<>>
    /\ results = <<>>
    /\ batch_returned = FALSE
    /\ fn_args = <<>>
    /\ fn_result = <<>>

\* cleanup_test_data deletes the rows of the test caption, then every
\* attempt is submitted to a pool of num_threads workers.
LaunchThreads ==
    /\ \A i \in Threads : thread_status[i] = "new"
    /\ active_caption_assignments' =
           {r \in active_caption_assignments : r.caption_id # TestCaption}
    /\ thread_status' = [i \in Threads |-> "running"]
    /\ UNCHANGED <<num_threads, race_results, pipeline, calls>>

\* An attempt that inserts its row itself instead of calling the procedure.
attempt_lock_insert(i) ==
    /\ thread_status[i] = "running"
    /\ active_caption_assignments' =
           active_caption_assignments
               \cup NewLockRows(<<i, "test_schedule_race">>, TestBatch)
    /\ thread_status' = [thread_status EXCEPT ![i] = "SUCCESS"]
    /\ UNCHANGED <<num_threads, race_results, pipeline, calls>>

\* attempt_lock: one call of the procedure; an exception is reported as
\* CONFLICT and a return as SUCCESS.
attempt_lock(i) ==
    /\ thread_status[i] = "running"
    /\ LET outcome == lock_caption_assignments(
                          active_caption_assignments,
                          <<i, "test_schedule_race">>, TestBatch)
       IN  /\ active_caption_assignments' = outcome.rows
           /\ thread_status' = [thread_status EXCEPT ![i] = outcome.status]
    /\ UNCHANGED <<num_threads, race_results, pipeline, calls>>

\* as_completed hands the result of a finished attempt to the test.
GatherResult(i) ==
    /\ thread_status[i] \in {"SUCCESS", "CONFLICT"}
    /\ \A k \in DOMAIN race_results : race_results[k].thread_id # i
    /\ race_results' =
           Append(race_results,
                  [thread_id |-> i, status |-> thread_status[i]])
    /\ UNCHANGED <<num_threads, thread_status, active_caption_assignments,
                   pipeline, calls>>

NextRace ==
    \/ LaunchThreads
    \/ \E i \in Threads : attempt_lock(i)
    \/ \E i \in Threads : GatherResult(i)

SpecRace == InitRace /\ [][NextRace]_vars

-----------------------------------------------------------------------------
(* Properties of the lock store *)

ActiveRowsOf(c) ==
    {r \in active_caption_assignments : r.caption_id = c /\ r.is_active}

StatusCount(status) ==
    Cardinality({i \in Threads : thread_status[i] = status})

AllAttemptsDone ==
    /\ Threads # {}
    /\ \A i \in Threads : thread_status[i] \in {"SUCCESS", "CONFLICT"}

\* C2: when K >= 2 callers concurrently try to lock the same unlocked
\* caption, exactly one gets SUCCESS and K - 1 get the conflict, and the
\* caption then has exactly one active row, never more.
C2_ExactlyOneWinner ==
    /\ Cardinality(ActiveRowsOf(TestCaption)) <= 1
    /\ (\A i \in Threads : thread_status[i] # "new")
           => StatusCount("SUCCESS") = Cardinality(ActiveRowsOf(TestCaption))
    /\ AllAttemptsDone
           => /\ StatusCount("SUCCESS") = 1
              /\ StatusCount("CONFLICT") = num_threads - 1
              /\ Cardinality(ActiveRowsOf(TestCaption)) = 1

\* Every one of the most threads has finished and was gathered.
C2_Witness ==
    /\ AllAttemptsDone
    /\ num_threads = MaxThreads
    /\ Len(race_results) = num_threads
    /\ StatusCount("CONFLICT") = num_threads - 1

\* the lock step of task t commits or refuses a batch in this step
LockCall(t) ==
    /\ pc[t] = "lock"
    /\ pc'[t] # "lock"
    /\ Assignments(schedule_messages[t]) # <<>>

-----------------------------------------------------------------------------
(* Properties of build_schedule *)

\* C4: a schedule is persisted only if all of its caption locks were
\* acquired: while the lock commit of a build has failed or has not yet
\* succeeded, the store holds no record of that schedule.
C4_PersistedOnlyWhenLocked ==
    \A t \in Tasks :
        (schedule_id[t] # <<>> /\ lock_result[t] \notin {"SUCCESS", "SKIPPED"})
            => \A r \in schedule_recommendations :
                  r.schedule_id # schedule_id[t]

StageOrder ==
    <<"analyze", "select", "build", "persist", "lock", "dataframe",
      "log_export">>

StagesBefore(stage) ==
    SelectSeq(StageOrder,
              LAMBDA s : \E i, j \in DOMAIN StageOrder :
                            /\ StageOrder[i] = s
                            /\ StageOrder[j] = stage
                            /\ i < j)

\* the stage in which an error is raised
ErrorStage(err) ==
    CASE err = "AnalysisError" -> "analyze"
      [] err \in {"SelectionError", "ValueError"} -> "select"
      [] err = "BuildError" -> "build"
      [] err = "PersistError" -> "persist"
      [] err = "LockConflict" -> "lock"
      [] err = "DataframeError" -> "dataframe"
      [] err = "ExportLogError" -> "log_export"

\* C5: a failure at any stage of a build prevents all later stages: a stage
\* runs only after every earlier stage ran without error, a failed build ran
\* nothing after the failing stage, and an empty caption pool aborts the
\* build before a schedule is built, persisted, locked or exported.
C5_FailureStopsLaterStages ==
    \A t \in Tasks :
        /\ pc[t] \in Range(StageOrder)
              => /\ last_error[t] = "none"
                 /\ stages_run[t] = StagesBefore(pc[t])
        /\ pc[t] = "build" => captions[t] # <<>>
        /\ last_error[t] # "none"
              => /\ pc[t] \in {"sleep", "raised", "recorded_failed"}
                 /\ stages_run[t] =
                        Append(StagesBefore(ErrorStage(last_error[t])),
                               ErrorStage(last_error[t]))
        /\ last_error[t] = "ValueError"
              => stages_run[t] = <<"analyze", "select">>

\* One build stopped at the empty caption pool and another one stopped at
\* the lock step.
C5_Witness ==
    \E t, u \in Tasks :
        /\ last_error[t] = "ValueError"
        /\ last_error[u] = "LockConflict"
        /\ schedule_export_log = {}

-----------------------------------------------------------------------------
(* Properties of the batch driver *)

Occurrences(s, c) == Len(SelectSeq(s, LAMBDA x : x = c))

C7_EmptyPoolNotRetried ==
    \A t \in Tasks :
        last_error[t] = "ValueError"
            => /\ invocations[t] = 1
               /\ pc[t] \in {"raised", "recorded_failed"}

\* C8: after a lock conflict the schedule whose lock was refused is
\* discarded, and a retry for that creator never submits the refused caption
\* set again: it starts from a fresh caption selection and locks the
\* captions of the newly built schedule.
C8_ConflictDiscardsSchedule ==
    [][\A t \in Tasks :
          /\ (pc[t] = "lock" /\ lock_result'[t] = "CONFLICT")
                => /\ \A r \in schedule_recommendations' :
                         r.schedule_id # schedule_id[t]
                   /\ \A r \in active_caption_assignments' :
                         r \in active_caption_assignments
                   /\ schedule_messages'[t] = <<>>
                   /\ captions'[t] = <<>>
          /\ (pc[t] = "sleep" /\ pc'[t] # "sleep")
                => /\ pc'[t] = "analyze"
                   /\ captions'[t] = <<>>
                   /\ schedule_messages'[t] = <<>>]_vars

Stopped == {"returned", "raised", "recorded_successful", "recorded_failed"}

\* the running attempt of task t fails in this step
AttemptFails(t) ==
    /\ pc[t] \in Range(StageOrder)
    /\ pc'[t] \notin Range(StageOrder) \cup {"returned"}

\* C9: the per-creator pipeline is invoked at most max_retries = 2 times:
\* the first successful attempt returns with no further attempt, a failure
\* of a non-final attempt is followed by a sleep and exactly one more
\* attempt, and a failure of the final attempt raises that attempt's error
\* to the batch.
C9_AtMostMaxRetriesAttempts ==
    [][\A t \in Tasks :
          /\ invocations'[t] <= max_retries
          /\ invocations'[t] # invocations[t]
                => /\ invocations'[t] = invocations[t] + 1
                   /\ pc[t] \in {"pending", "sleep"}
                   /\ pc'[t] = "analyze"
          /\ pc[t] \in Stopped
                => /\ invocations'[t] = invocations[t]
                   /\ pc'[t] \in Stopped
          /\ (AttemptFails(t) /\ invocations[t] < max_retries)
                => /\ pc'[t] = "sleep"
                   /\ wake_at'[t] > now
          /\ (AttemptFails(t) /\ invocations[t] = max_retries)
                => /\ pc'[t] = "raised"
                   /\ last_error'[t] # "none"
          /\ (pc[t] = "sleep" /\ pc'[t] # "sleep")
                => /\ pc'[t] = "analyze"
                   /\ invocations'[t] = invocations[t] + 1
                   /\ now' >= wake_at[t]
          /\ (pc[t] = "raised" /\ pc'[t] # "raised")
                => /\ pc'[t] = "recorded_failed"
                   /\ last_error'[t] = last_error[t]
                   /\ results'[creators[t]] = last_error[t]]_vars

\* The second attempt of a creator failed and its error was raised.
C9_Witness ==
    \E t \in Tasks :
        /\ invocations[t] = max_retries
        /\ pc[t] = "raised"
        /\ last_error[t] # "none"

\* C10: at most max_workers creator pipelines are in progress at any
\* instant, a pipeline sleeping between attempts counted, so a pending
\* creator never starts while max_workers pipelines run or back off.
C10_AtMostMaxWorkersInProgress ==
    /\ Cardinality(Busy) <= max_workers
    /\ \A t \in Tasks : pc[t] = "pending" => invocations[t] = 0

\* Every worker is taken, one of them sleeping between attempts, and a
\* creator is still pending.
C10_Witness ==
    \E t, u \in Tasks :
        /\ pc[t] = "sleep"
        /\ pc[u] = "pending"
        /\ Cardinality(Busy) = max_workers

-----------------------------------------------------------------------------
(* Termination of the batch *)

\* C11: provided each invocation of the processing function returns or
\* raises, every submitted creator's pipeline eventually completes, as a
\* success or as a failure after its retries are exhausted, and the batch
\* call eventually returns with len(successful) + len(failed) equal to the
\* number of submitted creators.
C11_BatchEventuallyReturns ==
    <>[](/\ batch_returned
         /\ Len(successful) + Len(failed) = Len(creators)
         /\ \A t \in Tasks :
               \/ /\ pc[t] = "recorded_successful"
                  /\ invocations[t] \in 1..max_retries
               \/ /\ pc[t] = "recorded_failed"
                  /\ invocations[t] = max_retries)

\* The batch returned with a creator that failed twice and a creator that
\* succeeded on its second attempt.
C11_Witness ==
    /\ batch_returned
    /\ \E t, u \in Tasks :
          /\ pc[t] = "recorded_failed"
          /\ pc[u] = "recorded_successful"
          /\ invocations[u] = max_retries
    /\ Len(successful) + Len(failed) = Len(creators)

-----------------------------------------------------------------------------
(* Properties of the built schedule *)

Built == fn_result # <<>> /\ "messages" \in DOMAIN fn_result

\* C12: in a RED-zone schedule (cooling_days = 2) no PPV message is
\* scheduled on day 0 or day 1 of the week: every message dated on those two
\* days is a Bump.
C12_CoolingDaysHaveNoPPV ==
    (Built /\ fn_result.zone = "RED")
        => /\ \A m \in Range(fn_result.messages) :
                 DateOf(m.scheduled_send_time) \in {0, 1}
                     => m.message_type = "Bump"
           /\ \A d \in {0, 1} : \A m \in Range(fn_result.days[d]) :
                 /\ m.message_type = "Bump"
                 /\ DateOf(m.scheduled_send_time) = d
           /\ \A d \in 2..(DAYS_PER_WEEK - 1) :
                 \A m \in Range(fn_result.days[d]) :
                     DateOf(m.scheduled_send_time) >= d

\* A RED-zone schedule with Bumps on both cooling days and PPVs from day 2.
C12_Witness ==
    /\ Built
    /\ fn_result.zone = "RED"
    /\ \A d \in {0, 1} : Len(fn_result.days[d]) = 3
    /\ \E m \in Range(fn_result.messages) :
          m.message_type = "PPV" /\ DateOf(m.scheduled_send_time) = 2

\* C13: no message of a built schedule, PPV or Bump, has a time of day at
\* or after 22:00; a PPV candidate time computed at or after 22:00 of its
\* day, the minimum-gap shift included, is placed at exactly 21:30 of the
\* same day, so every message of a day lies on that day before 22:00.
C13_NoMessageAtOrAfter22 ==
    Built
        => /\ \A m \in Range(fn_result.messages) :
                 HourOf(m.scheduled_send_time) < 22
           /\ \A d \in 0..(DAYS_PER_WEEK - 1) :
                 \A m \in Range(fn_result.days[d]) :
                     /\ DateOf(m.scheduled_send_time) = d
                     /\ m.scheduled_send_time < At(d, 22, 0)

\* the messages of the week in the order of their construction: day by day,
\* and within a day slot by slot
Constructed ==
    fn_result.days[0] \o fn_result.days[1] \o fn_result.days[2]
        \o fn_result.days[3] \o fn_result.days[4] \o fn_result.days[5]
        \o fn_result.days[6]

AtTime(list, time) ==
    SelectSeq(list, LAMBDA m : m.scheduled_send_time = time)

\* C14: the message list a build returns is the list of all constructed
\* messages sorted ascending by timestamp: timestamps are non-decreasing, no
\* message is lost or duplicated by the sort, and messages of equal
\* timestamp keep their day-then-slot construction order.
C14_SortedStably ==
    Built
        => /\ Len(fn_result.messages) = Len(Constructed)
           /\ \A i \in 1..(Len(fn_result.messages) - 1) :
                 fn_result.messages[i].scheduled_send_time
                     <= fn_result.messages[i + 1].scheduled_send_time
           /\ \A m \in Range(Constructed) \cup Range(fn_result.messages) :
                 AtTime(fn_result.messages, m.scheduled_send_time)
                     = AtTime(Constructed, m.scheduled_send_time)

\* A schedule in which the sort moved a message and two different messages
\* share a timestamp.
C14_Witness ==
    /\ Built
    /\ fn_result.messages # Constructed
    /\ \E i, j \in DOMAIN fn_result.messages :
          /\ i < j
          /\ fn_result.messages[i] # fn_result.messages[j]
          /\ fn_result.messages[i].scheduled_send_time
                 = fn_result.messages[j].scheduled_send_time

\* the days of the built week that are not cooling days
NormalDays ==
    {d \in 0..(DAYS_PER_WEEK - 1) :
        d >= SATURATION_RESPONSES[fn_result.zone].cooling_days_required}

\* the PPVs of day d in the order of their placement
PPVsOf(d) ==
    SelectSeq(fn_result.days[d], LAMBDA m : m.message_type = "PPV")

\* C15: on a normal day, every PPV after the first is scheduled at least
\* min_gap_hours + gap_extension_hours after the previously placed PPV of
\* that day.
C15_PPVGapKept ==
    Built
        => \A d \in NormalDays :
              \A i \in 2..Len(PPVsOf(d)) :
                  PPVsOf(d)[i].scheduled_send_time
                      - PPVsOf(d)[i - 1].scheduled_send_time
                          >= fn_result.min_gap

\* the days of the built week that are cooling days
CoolingDays == (0..(DAYS_PER_WEEK - 1)) \ NormalDays

\* the Bumps of day d in the order of their placement
BumpsOf(d) ==
    SelectSeq(fn_result.days[d], LAMBDA m : m.message_type = "Bump")

BumpPool == SelectSeq(fn_args.captions, IsBumpCaption)

\* the first Len(times) anchors carry the Bumps, in that order
AtAnchors(bumps, anchors) ==
    /\ Len(bumps) <= Len(anchors)
    /\ \A i \in DOMAIN bumps : bumps[i].scheduled_send_time = anchors[i]

\* C16: on a cooling day the Bumps are at the anchors 09:00, 14:30 and 20:00
\* in that order, each with a Bump caption not yet used on that day, an
\* anchor being skipped when no unused caption remains: the Bumps of one
\* cooling day have pairwise distinct caption ids and number
\* min(3, number of Bump captions).
C16_CoolingBumpsDistinct ==
    Built
        => \A d \in CoolingDays :
              /\ fn_result.days[d] = BumpsOf(d)
              /\ AtAnchors(BumpsOf(d),
                           <<At(d, 9, 0), At(d, 14, 30), At(d, 20, 0)>>)
              /\ Len(BumpsOf(d)) = Min(3, Len(BumpPool))
              /\ \A i, j \in DOMAIN BumpsOf(d) :
                    i # j => BumpsOf(d)[i].caption_id # BumpsOf(d)[j].caption_id

\* C17: on every normal day on which Bumps are placed the first Bump placed
\* is at 08:30, and when more than one Bump is placed the last Bump placed
\* is at 21:00, for every daily Bump target and every size of the Bump
\* caption pool.
C17_FirstAndLastBumpPinned ==
    Built
        => \A d \in NormalDays :
              /\ Len(BumpsOf(d)) >= 1
                    => BumpsOf(d)[1].scheduled_send_time = At(d, 8, 30)
              /\ Len(BumpsOf(d)) > 1
                    => BumpsOf(d)[Len(BumpsOf(d))].scheduled_send_time
                           = At(d, 21, 0)

VolumeComputed == fn_result # <<>> /\ "zone" \in DOMAIN fn_result

\* C18: for every saturation score s and tolerance t the zone is GREEN when
\* s < 0.6 * t, YELLOW when 0.6 * t <= s < t and RED when s >= t, exactly
\* one zone for every input; at t = 0.5 the scores 0.29, 0.30 and 0.50 give
\* GREEN, YELLOW and RED.
C18_ZoneBoundaries ==
    VolumeComputed
        => LET s == fn_args.saturation_score
               t == fn_args.saturation_tolerance
           IN  /\ fn_result.zone \in {"GREEN", "YELLOW", "RED"}
               /\ fn_result.zone = "GREEN" <=> 10 * s < 6 * t
               /\ fn_result.zone = "YELLOW" <=> (6 * t <= 10 * s /\ s < t)
               /\ fn_result.zone = "RED" <=> s >= t
               /\ (t = 500 /\ s = 290) => fn_result.zone = "GREEN"
               /\ (t = 500 /\ s = 300) => fn_result.zone = "YELLOW"
               /\ (t = 500 /\ s = 500) => fn_result.zone = "RED"

\* The zone was computed for a score on the boundary 0.6 * t.
C18_Witness ==
    /\ VolumeComputed
    /\ fn_args.saturation_tolerance = 500
    /\ fn_args.saturation_score = 300
    /\ fn_result.zone = "YELLOW"

\* C19: for every account tier and zone, calculate_volume_targets returns
\* adjusted_ppv = floor(floor((ppv_min + ppv_max) / 2) * volume_mult[zone])
\* and adjusted_bump = floor(floor((bump_min + bump_max) / 2)
\* * bump_ratio[zone]); MEDIUM in GREEN gives 12 PPVs and 8 Bumps, LARGE in
\* YELLOW gives 12 PPVs and 14 Bumps.
C19_VolumeTargets ==
    (VolumeComputed /\ fn_args.account_size \in DOMAIN ACCOUNT_SIZE_CONFIGS)
        => LET tier == ACCOUNT_SIZE_CONFIGS[fn_args.account_size]
               response == SATURATION_RESPONSES[fn_result.zone]
               base_ppv == (tier.weekly_ppv_min + tier.weekly_ppv_max) \div 2
               base_bump ==
                   (tier.weekly_bump_min + tier.weekly_bump_max) \div 2
           IN  /\ fn_result.ppv_count
                      = (base_ppv * response.volume_multiplier) \div 100
               /\ fn_result.bump_count
                      = (base_bump * response.bump_increase_ratio) \div 100
               /\ (fn_args.account_size = "MEDIUM"
                       /\ fn_result.zone = "GREEN")
                      => (fn_result.ppv_count = 12
                             /\ fn_result.bump_count = 8)
               /\ (fn_args.account_size = "LARGE"
                       /\ fn_result.zone = "YELLOW")
                      => (fn_result.ppv_count = 12
                             /\ fn_result.bump_count = 14)

\* The targets of a LARGE account at score 0.45 and tolerance 0.5.
C19_Witness ==
    /\ VolumeComputed
    /\ fn_args.account_size = "LARGE"
    /\ fn_args.saturation_score = 450
    /\ fn_args.saturation_tolerance = 500
    /\ fn_result = [ppv_count |-> 12, bump_count |-> 14, zone |-> "YELLOW"]

TiersComputed == fn_result # <<>> /\ "premium" \in DOMAIN fn_result

\* the ratios of a segment in hundredths: budget, mid, premium
TierRatios(segment) ==
    IF segment \in {"BUDGET", "EXPLORATORY"} THEN <<60, 30, 10>>
    ELSE IF segment \in {"PREMIUM", "LUXURY"} THEN <<15, 35, 50>>
    ELSE <<30, 45, 25>>

\* C20: for every behavioral segment and total PPV count, each of the
\* budget, mid and premium shares is floor(total * ratio), computed
\* independently with the segment's ratios (60/30/10, 15/35/50, otherwise
\* 30/45/25), so the shares sum to a value between total - 2 and total, not
\* necessarily to total; total = 7 with a STANDARD segment gives 2, 3 and 1.
C20_TierShares ==
    TiersComputed
        => LET total == fn_args.total_ppv
               ratios == TierRatios(fn_args.segment)
               sum == fn_result.budget + fn_result.mid + fn_result.premium
           IN  /\ fn_result.budget = (total * ratios[1]) \div 100
               /\ fn_result.mid = (total * ratios[2]) \div 100
               /\ fn_result.premium = (total * ratios[3]) \div 100
               /\ total - 2 <= sum
               /\ sum <= total
               /\ (total = 7 /\ fn_args.segment = "STANDARD")
                      => fn_result = [budget |-> 2, mid |-> 3, premium |-> 1]

\* The shares of 7 PPVs for a STANDARD segment, which sum to 6.
C20_Witness ==
    /\ TiersComputed
    /\ fn_args.total_ppv = 7
    /\ fn_args.segment = "STANDARD"
    /\ fn_result.budget + fn_result.mid + fn_result.premium = 6

\* task t takes a step of its build
Acts(t) == stages_run'[t] # stages_run[t] /\ stages_run'[t] # <<>>

\* the stage that the step of task t runs
StageRun(t) == stages_run'[t][Len(stages_run'[t])]

\* C21: the schedule id is generated exactly once per build, and the same
\* id value is passed to persistence, to the lock commit, and to the export
\* rows and export log of that build; no stage of a build observes another
\* id for it.
C21_OneIdPerBuild ==
    [][\A t \in Tasks :
          /\ (schedule_id[t] = <<>> /\ schedule_id'[t] # <<>>)
                => (Acts(t) /\ StageRun(t) = "build"
                       /\ Occurrences(stages_run'[t], "build") = 1)
          /\ (schedule_id[t] # <<>> /\ schedule_id'[t] # <<>>)
                => schedule_id'[t] = schedule_id[t]
          /\ (Acts(t) /\ StageRun(t) = "persist")
                => /\ \A r \in schedule_recommendations'
                                  \ schedule_recommendations :
                          r.schedule_id = schedule_id[t]
                   /\ pc'[t] = "lock"
                         => \E r \in schedule_recommendations' :
                               r.schedule_id = schedule_id[t]
          /\ (Acts(t) /\ StageRun(t) = "lock")
                => /\ \A r \in active_caption_assignments'
                                  \ active_caption_assignments :
                          r.schedule_id = schedule_id[t]
                   /\ lock_result'[t] = "SUCCESS"
                         => \E r \in active_caption_assignments' :
                               r.schedule_id = schedule_id[t]
          /\ (Acts(t) /\ StageRun(t) = "dataframe")
                => \A i \in DOMAIN df'[t] :
                      df'[t][i].schedule_id = schedule_id[t]
          /\ (Acts(t) /\ StageRun(t) = "log_export")
                => \A r \in schedule_export_log' \ schedule_export_log :
                      r.schedule_id = schedule_id[t]
    ]_vars

\* A build that went through persistence, a lock commit, the export rows
\* and the export log, and whose id was formed at an earlier second than
\* the present one.
C21_Witness ==
    \E t \in Tasks :
        /\ pc[t] = "returned"
        /\ lock_result[t] = "SUCCESS"
        /\ schedule_id[t] # <<>>
        /\ schedule_id[t][1] < now
        /\ \E r \in schedule_recommendations : r.schedule_id = schedule_id[t]
        /\ \E r \in active_caption_assignments : r.schedule_id = schedule_id[t]
        /\ \E r \in schedule_export_log : r.schedule_id = schedule_id[t]

\* the entries of list are pairwise different in their caption id
DistinctCaptions(list) ==
    \A i, j \in DOMAIN list :
        i # j => list[i].caption_id # list[j].caption_id

\* C23: within one built schedule no caption id is assigned to more than
\* one PPV message across the seven days, so the lock batch submitted for
\* the schedule never holds the same caption id twice.
C23_CaptionUsedOncePerWeek ==
    Built
        => /\ DistinctCaptions(
                  SelectSeq(fn_result.messages,
                            LAMBDA m : m.message_type = "PPV"))
           /\ DistinctCaptions(Assignments(fn_result.messages))

\* the step of task t ends its build with an exception
BuildFails(t) == Acts(t) /\ pc'[t] \in {"sleep", "raised"}

\* C24: if a build ends in failure, none of that build's caption locks are
\* active afterwards: a failure in a step after the lock commit (the export
\* rows, the export log) never leaves captions locked by a schedule whose
\* build was reported as failed.
C24_FailedBuildHoldsNoLock ==
    [][\A t \in Tasks :
          BuildFails(t)
              => ~ /\ lock_result[t] = "SUCCESS"
                   /\ \E r \in active_caption_assignments' :
                         r.is_active /\ r.schedule_id = schedule_id[t]
    ]_vars

\* C25: the lock batch of a build holds exactly one (caption_id, date, hour)
\* entry per PPV message of the schedule, taken from that message's
\* scheduled time, and no entry for a Bump; when the schedule has no PPV
\* message the lock commit is not invoked and the build continues as a
\* success.
C25_LockBatchIsThePPVs ==
    [][\A t \in Tasks :
          (Acts(t) /\ StageRun(t) = "lock")
              => LET ppv == SelectSeq(schedule_messages[t],
                                      LAMBDA m : m.message_type = "PPV")
                     batch == Assignments(schedule_messages[t])
                 IN  /\ DOMAIN batch = DOMAIN ppv
                     /\ \A i \in DOMAIN batch :
                           /\ batch[i].caption_id = ppv[i].caption_id
                           /\ batch[i].scheduled_send_date
                                  = ppv[i].scheduled_send_time \div DAY
                           /\ batch[i].scheduled_send_hour
                                  = (ppv[i].scheduled_send_time % DAY)
                                        \div HOUR
                     /\ ppv = <<>>
                           => /\ active_caption_assignments'
                                     = active_caption_assignments
                              /\ lock_result'[t] = "SKIPPED"
                              /\ pc'[t] = "dataframe"
                              /\ last_error'[t] = "none"
                     /\ ppv # <<>>
                           => lock_result'[t] \in {"SUCCESS", "CONFLICT"}
    ]_vars

\* One build went on after a schedule of Bumps only, for which no commit was
\* invoked, and another committed the PPVs of a schedule that also holds a
\* Bump.
C25_Witness ==
    \E t, u \in Tasks :
        /\ pc[t] = "dataframe"
        /\ lock_result[t] = "SKIPPED"
        /\ schedule_messages[t] # <<>>
        /\ \A m \in Range(schedule_messages[t]) : m.message_type = "Bump"
        /\ pc[u] = "dataframe"
        /\ lock_result[u] = "SUCCESS"
        /\ \E m \in Range(schedule_messages[u]) : m.message_type = "Bump"
        /\ \E m \in Range(schedule_messages[u]) : m.message_type = "PPV"

\* C26: an active lock row, once created, is never changed or removed by
\* any operation of the system: in every later state the caption is still
\* actively locked with the same schedule id, date and hour, and a failed or
\* conflicting commit leaves all existing rows unchanged.
C26_LockRowsAreKept ==
    [][/\ \A r \in active_caption_assignments :
             r.is_active
                 => \E r2 \in active_caption_assignments' :
                       /\ r2.is_active
                       /\ r2.caption_id = r.caption_id
                       /\ r2.schedule_id = r.schedule_id
                       /\ r2.scheduled_send_date = r.scheduled_send_date
                       /\ r2.scheduled_send_hour = r.scheduled_send_hour
       /\ active_caption_assignments \subseteq active_caption_assignments'
       /\ \A t \in Tasks :
             (Acts(t) /\ StageRun(t) = "lock"
                  /\ lock_result'[t] # "SUCCESS")
                 => active_caption_assignments' = active_caption_assignments
    ]_vars

\* The batch has returned; one build was refused by a conflict on both of
\* its attempts, and the rows of the build that holds the captions are still
\* active.
C26_Witness ==
    /\ batch_returned
    /\ \E t, u \in Tasks :
          /\ pc[t] = "recorded_successful"
          /\ lock_result[t] = "SUCCESS"
          /\ \E r \in active_caption_assignments :
                r.is_active /\ r.schedule_id = schedule_id[t]
          /\ pc[u] = "recorded_failed"
          /\ last_error[u] = "LockConflict"
          /\ invocations[u] = max_retries

\* C27: every message built for day d of the week carries calendar date d:
\* the minimum-gap shift never moves a PPV past midnight into the following
\* day, and every message of a schedule falls within the seven-day window
\* that starts at the week-start date.
C27_MessagesStayOnTheirDay ==
    Built
        => /\ \A d \in 0..(DAYS_PER_WEEK - 1) :
                 \A i \in DOMAIN fn_result.days[d] :
                     fn_result.days[d][i].scheduled_send_time \div DAY = d
           /\ \A i \in DOMAIN fn_result.messages :
                 /\ fn_result.messages[i].scheduled_send_time >= 0
                 /\ fn_result.messages[i].scheduled_send_time
                        < DAYS_PER_WEEK * DAY

\* the number of messages of the given type in list
NumberOf(list, type) ==
    Len(SelectSeq(list, LAMBDA m : m.message_type = type))

\* what the volume calculation returned for the arguments of the build
WeeklyTargets ==
    calculate_volume_targets(fn_args.account_size, fn_args.saturation_score,
                             fn_args.saturation_tolerance)

\* C28: for every account tier and zone, a built schedule never holds more
\* PPV messages than the adjusted weekly PPV target nor more Bump messages
\* than the adjusted weekly Bump target returned by the volume calculation.
C28_WeeklyTargetsNotExceeded ==
    Built
        => /\ NumberOf(fn_result.messages, "PPV") <= WeeklyTargets.ppv_count
           /\ NumberOf(fn_result.messages, "Bump") <= WeeklyTargets.bump_count

\* the messages of the schedule whose calendar date is day d
DatedOn(d) ==
    SelectSeq(fn_result.messages,
              LAMBDA m : m.scheduled_send_time \div DAY = d)

\* C29: for every account tier and zone, with volumes taken from the volume
\* calculation, the number of messages (PPV plus Bump) scheduled on any
\* single day never exceeds that tier's max_messages_per_day. The daily
\* targets themselves stay within the cap, whatever the size of the caption
\* pools.
C29_DailyCapKept ==
    Built
        => LET cap == SizeParams(fn_args.account_size).max_messages_per_day
           IN  /\ fn_result.daily_ppv + fn_result.daily_bump <= cap
               /\ \A d \in NormalDays :
                     Len(fn_result.days[d])
                         <= fn_result.daily_ppv + fn_result.daily_bump
               /\ \A d \in 0..(DAYS_PER_WEEK - 1) :
                     Len(fn_result.days[d]) <= cap
               /\ \A d \in 0..DAYS_PER_WEEK : Len(DatedOn(d)) <= cap

\* A day of a MEGA account on which the daily targets of 3 PPVs and 2
\* Bumps are both met.
C29_Witness ==
    /\ Built
    /\ fn_args.account_size = "MEGA"
    /\ fn_result.daily_ppv = 3
    /\ fn_result.daily_bump = 2
    /\ \E d \in NormalDays :
          /\ NumberOf(fn_result.days[d], "PPV") = 3
          /\ NumberOf(fn_result.days[d], "Bump") = 2

\* the schedule ids that earlier builds left in the stores
RecordedIds ==
    {r.schedule_id : r \in schedule_recommendations}
        \cup {r.schedule_id : r \in active_caption_assignments}
        \cup {r.schedule_id : r \in schedule_export_log}

\* C30: any two distinct builds produce distinct schedule ids, including
\* two builds of the same creator that run concurrently and a retried build
\* of a creator whose earlier attempt already generated an id: the id a
\* build generates is the id of no other running or returned build and of
\* no record an earlier build left.
C30_ScheduleIdsAreUnique ==
    [][\A t \in Tasks :
          (schedule_id[t] = <<>> /\ schedule_id'[t] # <<>>)
              => /\ \A u \in Tasks \ {t} : schedule_id[u] # schedule_id'[t]
                 /\ schedule_id'[t] \notin RecordedIds
    ]_vars

====
